---------------------------- MODULE Spec2Model ----------------------------
(***************************************************************************)
(* Model of publishutil.figurelayout.FigureLayout:                         *)
(*   - construction and validation of a style (__init__ and validators),   *)
(*   - get_figsize (figure width/height in inches),                        *)
(*   - get_formatted_panel_labels and draw_panel_labels.                   *)
(*                                                                         *)
(* Python floats are modelled as exact rationals <<num, den>> in lowest    *)
(* terms with den > 0.  Python None is the empty tuple.  A Python dict is  *)
(* a function whose domain is its set of keys; an optional dict is a       *)
(* record [present, d].  A Python str that is formatted or compared is a   *)
(* sequence of one-character strings.                                      *)
(***************************************************************************)
EXTENDS Integers, Sequences, FiniteSets, TLC

None == <<>>

(* ------------------------- exact arithmetic --------------------------- *)
Abs(n) == IF n < 0 THEN -n ELSE n

RECURSIVE GCD(_, _)
GCD(a, b) == IF b = 0 THEN a ELSE GCD(b, a % b)

Rat(n, d) ==
    LET s == IF d < 0 THEN -1 ELSE 1
        g == GCD(Abs(n), Abs(d))
    IN  <<(s * n) \div g, (s * d) \div g>>

R(n) == <<n, 1>>

RAdd(a, b) == Rat(a[1] * b[2] + b[1] * a[2], a[2] * b[2])
RMul(a, b) == Rat(a[1] * b[1], a[2] * b[2])
RDiv(a, b) == Rat(a[1] * b[2], a[2] * b[1])
RLt(a, b) == a[1] * b[2] < b[1] * a[2]
RLe(a, b) == a[1] * b[2] <= b[1] * a[2]

\* math.floor: the greatest integer not above a (line 11, used on line 181)
Floor(a) == a[1] \div a[2]

\* int(): truncation toward zero (lines 205-206)
\* (as floor: rounding down also below zero)
PyIntFloor(a) == a[1] \div a[2]
PyInt(a) == IF a[1] >= 0 THEN a[1] \div a[2] ELSE -((-a[1]) \div a[2])

\* unit conversion factors of lines 71/192 (25.4) and 73/194 (2.54)
MM_PER_INCH == Rat(254, 10)
CM_PER_INCH == Rat(254, 100)

(* ------------------------------ dicts --------------------------------- *)
Restrict(f, K) == [k \in K |-> f[k]]
Absent == [present |-> FALSE, d |-> <<>>]
Some(d) == [present |-> TRUE, d |-> d]

(* --------------------- construction and validation -------------------- *)
\* FigureLayout.available: the names of the bundled styles (line 19)
available == {"nature"}

figsize_keys == {"column_width", "gutter_width", "max_width", "max_height", "units"}
panel_label_keys == {"case", "prefix", "suffix"}

\* str.startswith('font') on the keys the model uses (lines 84, 276)
startswith_font(k) == k \in {"fontweight", "fontstyle", "fontsize"}

\* _validate_figsize: [exc, figsize_params, warned]
_validate_figsize(params) ==
    IF "figsize" \in DOMAIN params
    THEN LET fs == params["figsize"]
             unrecognized == DOMAIN fs \ figsize_keys
             incomplete == figsize_keys \ DOMAIN fs
             w == (IF unrecognized # {} THEN {"figsize_unrecognized"} ELSE {})
                  \cup (IF incomplete # {} THEN {"figsize_incomplete"} ELSE {})
         IN  IF "units" \notin DOMAIN fs
             THEN [exc |-> "KeyError", figsize_params |-> Absent, warned |-> w]
             ELSE IF fs["units"] \in {"mm", "cm"}
             THEN IF "max_height" \notin DOMAIN fs
                  THEN [exc |-> "KeyError", figsize_params |-> Absent, warned |-> w]
                  ELSE LET max_height_inches ==
                               IF fs["units"] = "mm"
                               THEN RDiv(fs["max_height"], MM_PER_INCH)
                               ELSE RDiv(fs["max_height"], CM_PER_INCH)
                       IN  [exc |-> "ok",
                            figsize_params |->
                                Some(fs @@ ("max_height_inches" :> max_height_inches)),
                            warned |-> w]
             \* line 75 reads max_height_inches, which no branch has bound
             ELSE [exc |-> "UnboundLocalError", figsize_params |-> Absent, warned |-> w]
    ELSE [exc |-> "ok", figsize_params |-> Absent, warned |-> {"figsize_absent"}]

\* _validate_panel_labels: [panel_label_params, warned]
_validate_panel_labels(params) ==
    IF "panel_labels" \in DOMAIN params
    THEN LET pl == params["panel_labels"]
             unrecognized == {x \in DOMAIN pl \ panel_label_keys : ~startswith_font(x)}
             incomplete == panel_label_keys \ DOMAIN pl
         IN  [panel_label_params |-> Some(pl),
              warned |-> (IF unrecognized # {} THEN {"panel_labels_unrecognized"} ELSE {})
                         \cup (IF incomplete # {} THEN {"panel_labels_incomplete"} ELSE {})]
    ELSE [panel_label_params |-> Absent, warned |-> {"panel_labels_absent"}]

\* _validate_constrained_layout_pads
_validate_constrained_layout_pads(params) ==
    IF "constrained_layout_pads" \in DOMAIN params
    THEN Some(params["constrained_layout_pads"])
    ELSE Absent

\* the object before __init__ has assigned anything but its defaults (lines 29-32)
Blank(exc, w) ==
    [exc |-> exc, name |-> None, figsize_params |-> Absent,
     panel_label_params |-> Absent, constrained_layout_pads |-> Absent, warned |-> w]

\* _validate_parameters on a dict (params is never None here: line 54 has raised)
_validate_parameters(params) ==
    LET f == _validate_figsize(params)
        p == _validate_panel_labels(params)
    IN  IF f.exc # "ok"
        THEN Blank(f.exc, f.warned)
        ELSE [exc |-> "ok", name |-> None, figsize_params |-> f.figsize_params,
              panel_label_params |-> p.panel_label_params,
              constrained_layout_pads |-> _validate_constrained_layout_pads(params),
              warned |-> f.warned \cup p.warned]

\* What the file system and the YAML parser give for a name: the argument is
\*   [kind |-> "none"]                       no name at all
\*   [kind |-> "name", name, ...]            a bare name, looked up in `available`
\*   [kind |-> "yml",  name, exists, ...]    a path ending in .yml
\* with isdict/params the parsed content of the file the name leads to.
__init__(arg) ==
    IF arg.kind = "none"
    THEN [Blank("ok", _validate_panel_labels(<<>>).warned) EXCEPT !.name = "default"]
    ELSE IF arg.kind = "name" /\ arg.name \notin available
    THEN Blank("ValueError", {})
    ELSE IF arg.kind = "yml" /\ ~arg.exists
    THEN Blank("FileNotFoundError", {})
    ELSE IF ~arg.isdict
    THEN Blank("ValueError", {})
    ELSE LET v == _validate_parameters(arg.params)
         IN  IF v.exc = "ok" THEN [v EXCEPT !.name = arg.name] ELSE v

(* ----------------------------- get_figsize ---------------------------- *)
\* rcParams['figure.figsize'] and rcParams['figure.dpi'] of the host (lines 170, 204)
rc_figsize == <<Rat(32, 5), Rat(24, 5)>>
rc_dpi == Rat(100, 1)

Raise(e) == [exc |-> e, width |-> None, height |-> None, raw_width |-> None, raw_height |-> None]

\* lines 202-207: the rounding to the dpi, given the unrounded width and height
RoundToDpi(width_inches, height, dpi) ==
    LET d == IF dpi = None THEN rc_dpi ELSE dpi
    IN  [exc |-> "ok",
         width |-> RDiv(R(PyInt(RMul(width_inches, d))), d),
         height |-> RDiv(R(PyInt(RMul(height, d))), d),
         raw_width |-> width_inches, raw_height |-> height]

\* lines 195-200: the height, given the width in inches
\* (without the proportion rule of lines 197-198)
HeightNoRescale(p, width_inches, height, wh_ratio) ==
    LET h0 == IF height = None THEN RDiv(width_inches, wh_ratio) ELSE height
    IN  IF RLt(p["max_height_inches"], h0) THEN p["max_height_inches"] ELSE h0
ResolveHeight(p, width_inches, height, wh_ratio) ==
    LET h0 == IF height = None THEN RDiv(width_inches, wh_ratio) ELSE height
        h1 == IF RLt(R(0), h0) /\ RLe(h0, R(1))
              THEN RMul(p["max_height_inches"], h0) ELSE h0
    IN  IF RLt(p["max_height_inches"], h1) THEN p["max_height_inches"] ELSE h1

\* lines 191-194: native units to inches
ToInches(p, w) ==
    IF p["units"] = "mm" THEN RDiv(w, MM_PER_INCH)
    ELSE IF p["units"] = "cm" THEN RDiv(w, CM_PER_INCH)
    ELSE w

\* lines 188-189: the clamp at max_width
\* (without the clamp)
ClampNone(p, w) == w
Clamp(p, w) == IF RLt(p["max_width"], w) THEN p["max_width"] ELSE w

\* lines 180-181: the width of n_columns columns and the gutters between them
ColumnsWidth(p, n_columns) ==
    RAdd(RMul(p["column_width"], n_columns),
         RMul(p["gutter_width"], R(Floor(RAdd(n_columns, R(-1))))))

\* line 183: the range test on width_proportion
OutOfRange(width_proportion) == RLt(R(1), width_proportion) \/ RLt(width_proportion, R(0))

\* lines 176-207 for a style that is not "default"
SizeByRules(self, n_columns, width_proportion, height, wh_ratio, dpi) ==
    LET p == self.figsize_params.d
        has(k) == k \in DOMAIN p
    IN  IF n_columns = None /\ width_proportion = None
        THEN Raise("ValueError")
        ELSE IF n_columns # None /\ ~self.figsize_params.present
        THEN Raise("TypeError")
        ELSE IF n_columns # None /\ ~(has("column_width") /\ has("gutter_width"))
        THEN Raise("KeyError")
        ELSE IF n_columns = None /\ OutOfRange(width_proportion)
        THEN Raise("ValueError")
        ELSE IF ~self.figsize_params.present
        THEN Raise("TypeError")
        ELSE IF ~has("max_width")
        THEN Raise("KeyError")
        ELSE LET w0 == IF width_proportion # None /\ ~OutOfRange(width_proportion)
                       THEN RMul(p["max_width"], width_proportion)
                       ELSE ColumnsWidth(p, n_columns)
                 width_inches == ToInches(p, Clamp(p, w0))
             IN  RoundToDpi(width_inches,
                            ResolveHeight(p, width_inches, height, wh_ratio), dpi)

\* lines 169-174: the "default" style returns the host's figure size
get_figsize(self, n_columns, width_proportion, height, wh_ratio, dpi) ==
    IF self.name = "default"
    THEN IF height = None
         THEN [exc |-> "ok", width |-> rc_figsize[1], height |-> rc_figsize[2],
               raw_width |-> rc_figsize[1], raw_height |-> rc_figsize[2]]
         ELSE [exc |-> "ok", width |-> rc_figsize[1], height |-> height,
               raw_width |-> rc_figsize[1], raw_height |-> height]
    ELSE SizeByRules(self, n_columns, width_proportion, height, wh_ratio, dpi)

(* --------------------- get_formatted_panel_labels --------------------- *)
\* str.upper and str.lower on the characters the model uses (lines 370, 372)
UpperChar(c) == CASE c = "a" -> "A" [] c = "b" -> "B" [] c = "p" -> "P" [] OTHER -> c
LowerChar(c) == CASE c = "A" -> "a" [] c = "B" -> "b" [] c = "P" -> "p" [] OTHER -> c
upper(s) == [i \in DOMAIN s |-> UpperChar(s[i])]
lower(s) == [i \in DOMAIN s |-> LowerChar(s[i])]

\* the literal affixes of lines 337-362, character by character
MdBold == <<"*", "*">>
MdItalic == <<"*">>
HtmlBoldOpen == <<"<", "b", ">">>
HtmlBoldClose == <<"<", "/", "b", ">">>
HtmlItalicOpen == <<"<", "i", ">">>
HtmlItalicClose == <<"<", "/", "i", ">">>
TexBoldOpen == <<"\\", "t", "e", "x", "t", "b", "f", "{">>
TexItalicOpen == <<"\\", "t", "e", "x", "t", "i", "t", "{">>
TexClose == <<"}">>

IsBold(params) == "fontweight" \in DOMAIN params /\ params["fontweight"] = "bold"
IsItalic(params) ==
    "fontstyle" \in DOMAIN params /\ params["fontstyle"] \in {"italic", "oblique"}

\* lines 329-362: the prefix and suffix of the format
StyleAffixes(params, frmt, tex) ==
    LET b == IsBold(params)
        i == IsItalic(params)
        on(c, t) == IF c THEN t ELSE <<>>
    IN  IF frmt = "raw" THEN [prefix |-> <<>>, suffix |-> <<>>]
        ELSE IF frmt = "markdown"
        THEN [prefix |-> on(b, MdBold) \o on(i, MdItalic),
              suffix |-> on(b, MdBold) \o on(i, MdItalic)]
        ELSE IF frmt = "html"
        THEN [prefix |-> on(b, HtmlBoldOpen) \o on(i, HtmlItalicOpen),
              suffix |-> on(b, HtmlBoldClose) \o on(i, HtmlItalicClose)]
        ELSE IF tex \/ frmt = "tex"
        THEN [prefix |-> on(b, TexBoldOpen) \o on(i, TexItalicOpen),
              suffix |-> on(b, TexClose) \o on(i, TexClose)]
        ELSE [prefix |-> <<>>, suffix |-> <<>>]

\* lines 366-377: one label, its case, its prefix and suffix, then the affixes
\* (with the case transform applied after the prefix and suffix)
FormatLabelAffixFirst(params, affixes, panel_label) ==
    LET l0 == IF "prefix" \in DOMAIN params THEN params["prefix"] \o panel_label
              ELSE panel_label
        l1 == IF "suffix" \in DOMAIN params THEN l0 \o params["suffix"] ELSE l0
        l2 == IF "case" \in DOMAIN params /\ params["case"] = "lower" THEN lower(l1)
              ELSE IF "case" \in DOMAIN params /\ params["case"] = "upper" THEN upper(l1)
              ELSE l1
    IN  affixes.prefix \o l2 \o affixes.suffix
FormatLabel(params, affixes, panel_label) ==
    LET l0 == IF "case" \in DOMAIN params /\ params["case"] = "lower"
              THEN lower(panel_label)
              ELSE IF "case" \in DOMAIN params /\ params["case"] = "upper"
              THEN upper(panel_label)
              ELSE panel_label
        l1 == IF "prefix" \in DOMAIN params THEN params["prefix"] \o l0 ELSE l0
        l2 == IF "suffix" \in DOMAIN params THEN l1 \o params["suffix"] ELSE l1
    IN  affixes.prefix \o l2 \o affixes.suffix

\* the axes that carry a panel_label attribute (lines 281, 365)
Labelled(f) == {i \in DOMAIN f.axes : f.axes[i].has_label}

\* lines 325-380: the dict from each panel_label to its formatted string
get_formatted_panel_labels(self, f, frmt, tex) ==
    LET params == IF self.panel_label_params.present THEN self.panel_label_params.d
                  ELSE <<>>
        affixes == StyleAffixes(params, frmt, tex)
    IN  [l \in {f.axes[i].panel_label : i \in Labelled(f)} |->
            FormatLabel(params, affixes, l)]

(* -------------------------- draw_panel_labels ------------------------- *)
\* lines 275-278: the font* entries of the panel label rules
FontKwargs(self) ==
    IF self.panel_label_params.present
    THEN Restrict(self.panel_label_params.d,
                  {k \in DOMAIN self.panel_label_params.d : startswith_font(k)})
    ELSE <<>>

\* lines 290-301: update every text whose content is the label, else insert one
\* (without the search: always fig.text)
UpsertAlwaysInsert(texts, label, x, y, fontkwargs) ==
    Append(texts, [text |-> label, x |-> x, y |-> y, font |-> fontkwargs])
Upsert(texts, label, x, y, fontkwargs) ==
    IF \E j \in DOMAIN texts : texts[j].text = label
    THEN [j \in DOMAIN texts |->
            IF texts[j].text = label
            THEN [texts[j] EXCEPT !.x = x, !.y = y, !.font = fontkwargs @@ @]
            ELSE texts[j]]
    ELSE Append(texts, [text |-> label, x |-> x, y |-> y, font |-> fontkwargs])

\* lines 280-301: the loop over the axes from the i-th on; `fail` is the axes
\* whose get_tightbbox raises (0: none does)
RECURSIVE PlaceFrom(_, _, _, _, _, _)
PlaceFrom(texts, axes, i, formatted_labels, fontkwargs, fail) ==
    IF i > Len(axes) THEN [raised |-> FALSE, texts |-> texts]
    ELSE IF ~axes[i].has_label
    THEN PlaceFrom(texts, axes, i + 1, formatted_labels, fontkwargs, fail)
    ELSE IF fail = i THEN [raised |-> TRUE, texts |-> texts]
    ELSE PlaceFrom(Upsert(texts, formatted_labels[axes[i].panel_label],
                          axes[i].x0, axes[i].y1, fontkwargs),
                   axes, i + 1, formatted_labels, fontkwargs, fail)

\* lines 268-302, after the early return
PlaceAll(self, f, formatted_labels, fail) ==
    LET padded == IF self.constrained_layout_pads.present
                  THEN [f EXCEPT !.pads = self.constrained_layout_pads]
                  ELSE f
        constrained_layout == f.constrained_layout
        r == PlaceFrom(f.texts, f.axes, 1, formatted_labels, FontKwargs(self), fail)
    IN  IF r.raised
        \* the exception leaves line 302 unreached
        THEN [outcome |-> "raised",
              fig |-> [padded EXCEPT !.texts = r.texts, !.constrained_layout = FALSE]]
        ELSE [outcome |-> "ok",
              fig |-> [padded EXCEPT !.texts = r.texts,
                                     !.constrained_layout = constrained_layout]]

\* lines 265-302
\* (without the early return of lines 266-267)
draw_panel_labels_NoEarlyReturn(self, f, tex, fail) ==
    PlaceAll(self, f, get_formatted_panel_labels(self, f, "figure", tex), fail)
draw_panel_labels(self, f, tex, fail) ==
    LET formatted_labels == get_formatted_panel_labels(self, f, "figure", tex)
    IN  IF DOMAIN formatted_labels = {}
        THEN [outcome |-> "noop", fig |-> f]
        ELSE PlaceAll(self, f, formatted_labels, fail)

(* ------------------------------- state -------------------------------- *)
VARIABLES
    arg,        \* what __init__ was given: the name and the content it leads to
    layout,     \* the FigureLayout object: __init__'s outcome and the fields it set
    op,         \* the last method call and its arguments
    ret,        \* what that call returned or raised
    fig,        \* the Matplotlib figure: axes, texts, constrained layout, pads
    usetex,     \* rcParams['text.usetex']
    pre,        \* the figure as it was when the last draw_panel_labels began
    phase       \* history of the figure's texts (see DrawPanelLabels)

vars == <<arg, layout, op, ret, fig, usetex, pre, phase>>

(* ------------------------------ inputs -------------------------------- *)
\* bounds of the inputs the specifications enumerate
MaxColumns == 3
PropDen == 2
MaxHeight2 == 4
NumAxes == 2

\* figsize sections of style files; the first is the bundled Nature style
\* of the docstring (lines 138-143)
FigsizeBases ==
    { [column_width |-> R(89), gutter_width |-> R(5), max_width |-> R(183),
       max_height |-> R(247), units |-> "mm"],
      [column_width |-> R(8), gutter_width |-> R(1), max_width |-> R(18),
       max_height |-> R(24), units |-> "cm"],
      [column_width |-> R(3), gutter_width |-> Rat(1, 4), max_width |-> R(7),
       max_height |-> R(9), units |-> "in"] }

ExtraFigsize == {<<>>, "dpi" :> R(600)}

FigsizeSections(bases, keysets, extras) ==
    {Restrict(b, K) @@ e : b \in bases, K \in keysets, e \in extras}

PanelBases ==
    { [case |-> "upper", prefix |-> <<"(">>, suffix |-> <<")">>,
       fontweight |-> "bold", fontstyle |-> "italic", color |-> "red"],
      [case |-> "lower", prefix |-> <<"P">>, suffix |-> <<>>,
       fontweight |-> "normal", fontstyle |-> "oblique", color |-> "red"],
      [case |-> "unchanged", prefix |-> <<>>, suffix |-> <<"B">>,
       fontweight |-> "bold", fontstyle |-> "normal", color |-> "red"] }

PanelKeys == {"case", "prefix", "suffix", "fontweight", "fontstyle", "color"}

PanelSections(bases, keysets) == {Restrict(b, K) : b \in bases, K \in keysets}

Pads == [w_pad |-> 1, h_pad |-> 1]

\* the dicts a style file parses into, given the sections it may hold
Contents(figsizes, panels, pads) ==
    {f @@ p @@ c :
        f \in {<<>>} \cup {"figsize" :> s : s \in figsizes},
        p \in {<<>>} \cup {"panel_labels" :> s : s \in panels},
        c \in {<<>>} \cup {"constrained_layout_pads" :> s : s \in pads}}

NameArgs(contents) ==
    {[kind |-> "name", name |-> "nature", exists |-> TRUE, isdict |-> TRUE, params |-> c]
        : c \in contents}
YmlArgs(contents) ==
    {[kind |-> "yml", name |-> "mystyle", exists |-> TRUE, isdict |-> TRUE, params |-> c]
        : c \in contents}
FileArgs(contents) == NameArgs(contents) \cup YmlArgs(contents)

OtherArgs ==
    { [kind |-> "none"],
      [kind |-> "name", name |-> "bogus"],
      [kind |-> "yml", name |-> "mystyle", exists |-> FALSE],
      [kind |-> "yml", name |-> "mystyle", exists |-> TRUE, isdict |-> FALSE],
      [kind |-> "name", name |-> "nature", exists |-> TRUE, isdict |-> FALSE] }

BlankFig == [axes |-> <<>>, texts |-> <<>>, constrained_layout |-> FALSE, pads |-> Absent]
NoOp == [name |-> "none"]

(* --------------------- specification of __init__ ---------------------- *)
LoadArgs ==
    OtherArgs \cup
    FileArgs(Contents(FigsizeSections(FigsizeBases, SUBSET figsize_keys, ExtraFigsize),
                      PanelSections(PanelBases, {{}, panel_label_keys, PanelKeys,
                                                 {"case", "fontweight"}}),
                      {Pads}))

InitLoad ==
    /\ arg = None
    /\ layout = Blank("new", {})
    /\ op = NoOp
    /\ ret = None
    /\ fig = BlankFig
    /\ usetex = FALSE
    /\ pre = BlankFig
    /\ phase = "fresh"

Construct ==
    /\ layout.exc = "new"
    /\ \E a \in LoadArgs :
          /\ arg' = a
          /\ layout' = __init__(a)
    /\ UNCHANGED <<op, ret, fig, usetex, pre, phase>>

NextLoad == Construct

SpecLoad == InitLoad /\ [][NextLoad]_vars

(* -------------------- specification of get_figsize -------------------- *)
SizeArgs ==
    {[kind |-> "none"]} \cup
    YmlArgs(Contents(FigsizeSections(FigsizeBases,
                                      {K \in SUBSET figsize_keys :
                                          {"units", "max_height"} \subseteq K},
                                      {<<>>}),
                      {}, {}))

Columns == {None} \cup {Rat(k, 2) : k \in -2 .. 2 * MaxColumns}
Proportions == {None} \cup {Rat(k, PropDen) : k \in -1 .. PropDen + 1}
Heights == {None, R(10)} \cup {Rat(k, 2) : k \in -1 .. MaxHeight2}
\* the default wh_ratio (1 + sqrt(5))/2 of line 112, as the ratio 13/8 of two
\* successive Fibonacci numbers, and others
GoldenRatio == Rat(13, 8)
Ratios == {GoldenRatio, Rat(16, 9), R(4)}
Dpis == {None, R(3), R(72), Rat(5, 2)}

InitSize ==
    /\ arg \in SizeArgs
    /\ __init__(arg).exc = "ok"
    /\ layout = __init__(arg)
    /\ op = NoOp
    /\ ret = None
    /\ fig = BlankFig
    /\ usetex = FALSE
    /\ pre = BlankFig
    /\ phase = "fresh"

\* get_figsize is a pure function of the style and its arguments: one call
\* per behaviour reaches every result
GetFigsize ==
    /\ op = NoOp
    /\ \E n_columns \in Columns, width_proportion \in Proportions, height \in Heights,
          wh_ratio \in Ratios, dpi \in Dpis :
          /\ op' = [name |-> "get_figsize", n_columns |-> n_columns,
                    width_proportion |-> width_proportion, height |-> height,
                    wh_ratio |-> wh_ratio, dpi |-> dpi]
          /\ ret' = get_figsize(layout, n_columns, width_proportion, height, wh_ratio, dpi)
    /\ UNCHANGED <<arg, layout, fig, usetex, pre, phase>>

NextSize == GetFigsize

SpecSize == InitSize /\ [][NextSize]_vars

(* ------------ specification of get_formatted_panel_labels ------------ *)
PanelLabels == {<<"a">>, <<"A">>, <<"b">>}

\* an axes: its panel_label attribute if it has one, and where the renderer
\* puts it (left edge of the tight bounding box, top edge of the position)
NoLabel(i) == [has_label |-> FALSE, panel_label |-> <<>>, x0 |-> i, y1 |-> i]
WithLabel(i, l) == [has_label |-> TRUE, panel_label |-> l, x0 |-> i, y1 |-> i]
AxesOf(i) == {NoLabel(i)} \cup {WithLabel(i, l) : l \in PanelLabels}
AxesLists == {a \in [1 .. NumAxes -> UNION {AxesOf(i) : i \in 1 .. NumAxes}] :
                 \A i \in 1 .. NumAxes : a[i] \in AxesOf(i)}

FormatArgs ==
    {[kind |-> "none"]} \cup
    YmlArgs(Contents({}, PanelSections(PanelBases, SUBSET (PanelKeys \ {"color"})), {}))

Formats == {"figure", "tex", "raw", "html", "markdown"}

InitFormat ==
    /\ arg \in FormatArgs
    /\ layout = __init__(arg)
    /\ op = NoOp
    /\ ret = None
    /\ fig \in {[BlankFig EXCEPT !.axes = a] : a \in AxesLists}
    /\ usetex \in BOOLEAN
    /\ pre = BlankFig
    /\ phase = "fresh"

\* get_formatted_panel_labels is a pure function of the style, the figure's
\* axes and the host's text mode
GetFormattedPanelLabels ==
    /\ op = NoOp
    /\ \E frmt \in Formats :
          /\ op' = [name |-> "get_formatted_panel_labels", frmt |-> frmt]
          /\ ret' = get_formatted_panel_labels(layout, fig, frmt, usetex)
    /\ UNCHANGED <<arg, layout, fig, usetex, pre, phase>>

NextFormat == GetFormattedPanelLabels

SpecFormat == InitFormat /\ [][NextFormat]_vars

(* ----------------- specification of draw_panel_labels ----------------- *)
FigLabels == {<<"a">>, <<"A">>}
FigAxesOf(i) == {NoLabel(i)} \cup {WithLabel(i, l) : l \in FigLabels}
FigAxesLists == {a \in [1 .. NumAxes -> UNION {FigAxesOf(i) : i \in 1 .. NumAxes}] :
                    \A i \in 1 .. NumAxes : a[i] \in FigAxesOf(i)}

FigArgs ==
    {[kind |-> "none"]} \cup
    YmlArgs(Contents({},
                     PanelSections(PanelBases,
                                   {{}, {"case", "prefix", "suffix", "fontweight"}}),
                     {Pads}))

\* phase: "fresh" until draw_panel_labels is first called; "placing" while
\* every call since has completed with the panel labels as they were at the
\* first; "tainted" once a call has raised or a label has changed after it
InitFig ==
    /\ arg \in FigArgs
    /\ layout = __init__(arg)
    /\ op = NoOp
    /\ ret = None
    /\ fig \in {[BlankFig EXCEPT !.axes = a, !.constrained_layout = c] :
                   a \in FigAxesLists, c \in BOOLEAN}
    /\ usetex = FALSE
    /\ pre = fig
    /\ phase = "fresh"

DrawPanelLabels ==
    \E fail \in 0 .. NumAxes :
        LET r == draw_panel_labels(layout, fig, usetex, fail)
        IN  /\ op' = [name |-> "draw_panel_labels", fail |-> fail]
            /\ ret' = r.outcome
            /\ fig' = r.fig
            /\ pre' = fig
            /\ phase' = IF r.outcome = "raised" \/ phase = "tainted"
                        THEN "tainted" ELSE "placing"
            /\ UNCHANGED <<arg, layout, usetex>>

\* the caller sets, changes or deletes the panel_label attribute of an axes
SetPanelLabel ==
    \E i \in 1 .. NumAxes : \E a \in FigAxesOf(i) :
        /\ a # fig.axes[i]
        /\ fig' = [fig EXCEPT !.axes[i] = a]
        /\ op' = [name |-> "set_panel_label", fail |-> 0]
        /\ ret' = None
        /\ pre' = fig'
        /\ phase' = IF phase = "fresh" THEN "fresh" ELSE "tainted"
        /\ UNCHANGED <<arg, layout, usetex>>

NextFig == DrawPanelLabels \/ SetPanelLabel

SpecFig == InitFig /\ [][NextFig]_vars

(* ------------------------ claims on __init__ -------------------------- *)
Constructed == layout.exc # "new"
Loadable ==
    \/ arg.kind = "none"
    \/ arg.kind = "name" /\ arg.name \in available
    \/ arg.kind = "yml" /\ arg.exists
RecordShaped == arg.kind = "none" \/ arg.isdict

\* C3: construction fails only when the name is neither a bundled style nor a
\* loadable file (ValueError) or when the content is not a dict (ValueError);
\* for every dict content it completes, reporting issues as warnings only.
C3_ConstructionFailsOnlyOnNameOrShape ==
    Constructed =>
        /\ (Loadable /\ RecordShaped) => layout.exc = "ok"
        /\ layout.exc # "ok" => layout.exc = "ValueError" \/ ~Loadable

(* ----------------------- claims on get_figsize ------------------------ *)
SizeCalled == op.name = "get_figsize"
\* a style that is not "default" and whose figsize rules are complete
RuleStyle ==
    /\ layout.name # "default"
    /\ layout.figsize_params.present
    /\ figsize_keys \subseteq DOMAIN layout.figsize_params.d
P == layout.figsize_params.d
InchPerUnit == IF P["units"] = "mm" THEN Rat(10, 254) ELSE Rat(100, 254)
MaxWidthInches == RMul(P["max_width"], InchPerUnit)
Min(a, b) == IF RLe(a, b) THEN a ELSE b
Given(x) == x # None
Density == IF Given(op.dpi) THEN op.dpi ELSE rc_dpi

\* C1: for a style that is not "default", get_figsize raises ValueError and
\* returns no size whenever n_columns and width_proportion are both omitted
\* or both supplied.
C1_ExactlyOneOfColumnsAndProportion ==
    (SizeCalled /\ RuleStyle /\ (Given(op.n_columns) <=> Given(op.width_proportion)))
        => ret.exc = "ValueError" /\ ret.width = None

\* C2: for a style that is not "default", a supplied width_proportion below 0
\* or above 1 raises ValueError, every value in [0, 1] is accepted, and 1
\* gives the unrounded width max_width in inches.
C2_ProportionRange ==
    (SizeCalled /\ RuleStyle /\ Given(op.width_proportion)) =>
        /\ (RLt(op.width_proportion, R(0)) \/ RLt(R(1), op.width_proportion))
               => ret.exc = "ValueError"
        /\ (RLe(R(0), op.width_proportion) /\ RLe(op.width_proportion, R(1)))
               => ret.exc # "ValueError"
        /\ (op.width_proportion = R(1) /\ ret.exc = "ok")
               => ret.raw_width = MaxWidthInches

\* the same call with other columns or another proportion
WithColumns(c) ==
    get_figsize(layout, c, op.width_proportion, op.height, op.wh_ratio, op.dpi)
WithProportion(w) ==
    get_figsize(layout, op.n_columns, w, op.height, op.wh_ratio, op.dpi)

Height0 == IF Given(op.height) THEN op.height ELSE RDiv(ret.raw_width, op.wh_ratio)

FloorTo(v, d) == RDiv(R(Floor(RMul(v, d))), d)
TowardZero(v, d) ==
    IF RLe(R(0), v) THEN FloorTo(v, d)
    ELSE [FloorTo([v EXCEPT ![1] = -@], d) EXCEPT ![1] = -@]

\* C6 as claimed: width and height are floor(value * d) / d of their unrounded
\* values for every accepted input, negative values included.
C6_RoundsDownAlways ==
    (SizeCalled /\ RuleStyle /\ ret.exc = "ok") =>
        /\ ret.width = FloorTo(ret.raw_width, Density)
        /\ ret.height = FloorTo(ret.raw_height, Density)
        /\ RLe(ret.width, ret.raw_width)
        /\ RLe(ret.height, ret.raw_height)

\* C6 as amended: width and height are int(value * d) / d, the multiple of 1/d
\* next to the value toward zero: floor(value * d) / d (not above the value,
\* less than 1/d below it) when the value is not negative, and not below the
\* value, less than 1/d above it, when it is negative; value * d is an integer.
RoundedTowardZero(v, r) ==
    /\ r = TowardZero(v, Density)
    /\ RMul(r, Density)[2] = 1
    /\ RLe(R(0), v) => RLe(r, v) /\ RLt(v, RAdd(r, RDiv(R(1), Density)))
    /\ RLt(v, R(0)) => RLe(v, r) /\ RLt(r, RAdd(v, RDiv(R(1), Density))) /\ RLe(r, R(0))
C6_RoundsTowardZero ==
    (SizeCalled /\ RuleStyle /\ ret.exc = "ok") =>
        /\ RoundedTowardZero(ret.raw_width, ret.width)
        /\ RoundedTowardZero(ret.raw_height, ret.height)

\* C6 witness: a negative height that is no multiple of 1/d is rounded up
C6_Witness ==
    /\ SizeCalled /\ RuleStyle /\ ret.exc = "ok"
    /\ RLt(ret.raw_height, R(0)) /\ RLt(ret.raw_height, ret.height)
    /\ RLt(R(0), ret.raw_width) /\ RLt(ret.width, ret.raw_width)

(* --------------- claims on get_formatted_panel_labels ----------------- *)
FormatCalled == op.name = "get_formatted_panel_labels"
LabelParams == IF layout.panel_label_params.present THEN layout.panel_label_params.d ELSE <<>>
Has(k) == k \in DOMAIN LabelParams
Bold == Has("fontweight") /\ LabelParams["fontweight"] = "bold"
Italic == Has("fontstyle") /\ LabelParams["fontstyle"] \in {"italic", "oblique"}

\* the label after the case transform, then with the prefix and the suffix
Cased(l) ==
    IF Has("case") /\ LabelParams["case"] = "upper" THEN upper(l)
    ELSE IF Has("case") /\ LabelParams["case"] = "lower" THEN lower(l)
    ELSE l
Inner(l) ==
    (IF Has("prefix") THEN LabelParams["prefix"] ELSE <<>>)
        \o Cased(l) \o (IF Has("suffix") THEN LabelParams["suffix"] ELSE <<>>)

\* the wrappings of a format: <<open, close>> for bold and for italic
WrapsOf(frmt) ==
    CASE frmt = "markdown" -> [bold |-> <<MdBold, MdBold>>, italic |-> <<MdItalic, MdItalic>>]
      [] frmt = "html" -> [bold |-> <<HtmlBoldOpen, HtmlBoldClose>>,
                           italic |-> <<HtmlItalicOpen, HtmlItalicClose>>]
      [] frmt = "tex" \/ (frmt = "figure" /\ usetex) ->
            [bold |-> <<TexBoldOpen, TexClose>>, italic |-> <<TexItalicOpen, TexClose>>]
      [] OTHER -> [bold |-> <<<<>>, <<>>>>, italic |-> <<<<>>, <<>>>>]

\* s is t wrapped for the styles in force: nothing, one wrapping, or, when
\* both are in force, bold's opening, italic's opening, t and the two closings
WrappedAs(s, t, frmt) ==
    LET w == WrapsOf(frmt)
    IN  CASE ~Bold /\ ~Italic -> s = t
          [] Bold /\ ~Italic -> s = w.bold[1] \o t \o w.bold[2]
          [] ~Bold /\ Italic -> s = w.italic[1] \o t \o w.italic[2]
          [] OTHER -> \/ s = w.bold[1] \o w.italic[1] \o t \o w.italic[2] \o w.bold[2]
                      \/ s = w.bold[1] \o w.italic[1] \o t \o w.bold[2] \o w.italic[2]

\* C7: the result has one entry per panel_label of the labelled axes, keyed by
\* the label as given; its value is the label after the case transform, then
\* the prefix and suffix, then the wrapping of the format: ** and * for
\* markdown, <b></b> and <i></i> for html, \textbf{} and \textit{} for tex or
\* for figure in TeX mode, none for raw, and never TeX's for html, raw and
\* markdown.
C7_FormatOrderAndWrapping ==
    FormatCalled =>
        /\ DOMAIN ret = {fig.axes[i].panel_label : i \in Labelled(fig)}
        /\ \A l \in DOMAIN ret : WrappedAs(ret[l], Inner(l), op.frmt)
        /\ op.frmt = "raw" => \A l \in DOMAIN ret : ret[l] = Inner(l)

\* C7 witness: case upper, prefix "(", suffix ")" and fontweight bold give
\* **(A)** for the label a in markdown while the host is in TeX mode
C7_Witness ==
    /\ FormatCalled /\ op.frmt = "markdown" /\ usetex
    /\ Has("case") /\ LabelParams["case"] = "upper"
    /\ Has("prefix") /\ Has("suffix") /\ Bold /\ ~Italic
    /\ <<"a">> \in DOMAIN ret
    /\ ret[<<"a">>] = <<"*", "*", "(", "A", ")", "*", "*">>

\* the wrapping of t with the closings in the reverse order of the openings
NestedAround(t, frmt) ==
    LET w == WrapsOf(frmt)
        on(c, a) == IF c THEN a ELSE <<>>
    IN  on(Bold, w.bold[1]) \o on(Italic, w.italic[1]) \o t
            \o on(Italic, w.italic[2]) \o on(Bold, w.bold[2])

\* C11: for every format and every fontweight and fontstyle the wrapping is
\* properly nested, the closings in the reverse order of the openings; with
\* bold and italic or oblique the html result is <b><i>label</i></b>.
C11_WrappingProperlyNested ==
    FormatCalled =>
        \A l \in DOMAIN ret : ret[l] = NestedAround(Inner(l), op.frmt)

(* --------------------- claims on draw_panel_labels -------------------- *)
DrawCalled == op.name = "draw_panel_labels"
FigureLabels == get_formatted_panel_labels(layout, fig, "figure", usetex)
\* the formatted label of the i-th axes, and the last axes showing a string
StringOf(i) == FigureLabels[fig.axes[i].panel_label]
Strings == {StringOf(i) : i \in Labelled(fig)}
LastWith(str) ==
    CHOOSE i \in Labelled(fig) :
        /\ StringOf(i) = str
        /\ \A k \in Labelled(fig) : StringOf(k) = str => k <= i

\* C8: from a figure without texts, after one or more completed calls with
\* the panel labels and the style unchanged, the figure holds exactly one text
\* per distinct formatted label; a repeated call inserts nothing, and panels
\* whose labels format alike share one text, placed at the later panel.
C8_OneTextPerDistinctLabel ==
    (DrawCalled /\ phase = "placing") =>
        /\ Len(fig.texts) = Cardinality(Strings)
        /\ {fig.texts[j].text : j \in DOMAIN fig.texts} = Strings
        /\ \A j \in DOMAIN fig.texts :
              /\ fig.texts[j].x = fig.axes[LastWith(fig.texts[j].text)].x0
              /\ fig.texts[j].y = fig.axes[LastWith(fig.texts[j].text)].y1
        /\ pre.texts # <<>> => fig.texts = pre.texts

\* C8 witness: a repeated call on two panels labelled a and A, which both
\* format to (A): one text, at the second panel
C8_Witness ==
    /\ DrawCalled /\ phase = "placing" /\ ret = "ok"
    /\ pre.texts # <<>> /\ pre.texts = fig.texts
    /\ Cardinality(Labelled(fig)) = 2
    /\ fig.axes[1].panel_label # fig.axes[2].panel_label
    /\ Len(fig.texts) = 1
    /\ fig.texts[1].text = <<"(", "A", ")">>
    /\ fig.texts[1].x = fig.axes[2].x0

\* C9 as claimed: the call changes nothing when no panel carries a label, and
\* when the style has no panel label rules even if panels carry labels.
C9_NoOpWithoutLabelsOrRules ==
    (DrawCalled /\ (Labelled(pre) = {} \/ ~layout.panel_label_params.present))
        => ret = "noop" /\ fig = pre

\* C9 as amended: the call changes nothing (texts, pads, constrained layout)
\* exactly when no panel carries a label; with labelled panels and no panel
\* label rules, a completed call leaves a text for each label, unformatted.
C9_NoOpOnlyWithoutLabels ==
    DrawCalled =>
        /\ Labelled(pre) = {} => ret = "noop" /\ fig = pre
        /\ Labelled(pre) # {} => ret # "noop"
        /\ (Labelled(pre) # {} /\ ~layout.panel_label_params.present /\ ret = "ok") =>
              \A i \in Labelled(pre) :
                  \E j \in DOMAIN fig.texts :
                      fig.texts[j].text = pre.axes[i].panel_label /\ fig.texts[j].font = <<>>

\* C9 witness: no axes is labelled, the style has pads and the figure is in
\* constrained layout with texts from earlier calls: everything is left alone
C9_Witness ==
    /\ DrawCalled /\ ret = "noop" /\ Labelled(pre) = {}
    /\ layout.constrained_layout_pads.present
    /\ fig.texts # <<>>
    /\ fig = pre

\* C10: a call that raises has inserted or moved no text and leaves the
\* constrained layout setting as it was; a call that completes restores it.
C10_AllOrNothing ==
    DrawCalled =>
        /\ ret = "raised" =>
              fig.texts = pre.texts /\ fig.constrained_layout = pre.constrained_layout
        /\ ret = "ok" => fig.constrained_layout = pre.constrained_layout
====
